---- MODULE Spec2Model ----
(***************************************************************************)
(* A model of pycobra's Ewa aggregator (src/pycobra/ewa.py) and of its     *)
(* Diagnostics engine (src/pycobra/diagnostics.py).                        *)
(*                                                                         *)
(* Conventions.  None is <<>> and a given optional value v is <<v>>.  A    *)
(* Python dict is a sequence of <<key, value>> pairs in insertion order.   *)
(* Rows of a data set are row identities 1..n, so that slices can be       *)
(* compared row by row.  A float quotient a / b is the record              *)
(* [num |-> a, den |-> b]; numpy's 0.0 / 0.0 is nan, which is the quotient *)
(* whose den is 0.                                                         *)
(***************************************************************************)
EXTENDS Integers, Sequences, FiniteSets, TLC

\* ------------------------------------------------------------------------
\* Bounds of the model
\* ------------------------------------------------------------------------
MaxRows == 3

\* how many method calls one Ewa object receives
MaxCalls == 4

\* machines of the reference ensemble
MaxMachines == 3

\* values in the reference ensemble's pool of raw predictions
MaxPool == 3

\* the largest line_points a sweep is asked for
MaxLinePoints == 2

\* ------------------------------------------------------------------------
\* Python values
\* ------------------------------------------------------------------------
None == <<>>

Some(v) == <<v>>

Range(s) == {s[i] : i \in 1..Len(s)}

RECURSIVE SumSeq(_)
SumSeq(s) == IF s = <<>> THEN 0 ELSE Head(s) + SumSeq(Tail(s))

\* dict: keys in insertion order
DictKeys(d) == [i \in 1..Len(d) |-> d[i][1]]

DictHas(d, k) == \E i \in 1..Len(d) : d[i][1] = k

DictGet(d, k) == d[CHOOSE i \in 1..Len(d) : d[i][1] = k][2]

\* d[k] = v: an existing key keeps its position and takes the new value, a
\* new key is appended.
DictSet(d, k, v) ==
    IF DictHas(d, k)
    THEN [i \in 1..Len(d) |-> IF d[i][1] = k THEN <<k, v>> ELSE d[i]]
    ELSE Append(d, <<k, v>>)

\* Normalisation of one slice index against a sequence of n elements.
SliceIndex(i, n) ==
    LET j == IF i < 0 THEN i + n ELSE i
    IN  IF j < 0 THEN 0 ELSE IF j > n THEN n ELSE j

\* s[lo:hi] with lo, hi optional.
PySlice(s, lo, hi) ==
    LET n == Len(s)
        a == IF lo = None THEN 0 ELSE SliceIndex(lo[1], n)
        b == IF hi = None THEN n ELSE SliceIndex(hi[1], n)
    IN  IF b > a THEN SubSeq(s, a + 1, b) ELSE <<>>

\* sklearn.utils.shuffle: some permutation of the positions 1..n.
Shuffles(n) ==
    {p \in [1..n -> 1..n] : \A i, j \in 1..n : p[i] = p[j] => i = j}

\* a float quotient; den = 0 is nan (0.0 / 0.0)
Quot(a, b) == [num |-> a, den |-> b]

IsNaN(q) == q.den = 0

\* ------------------------------------------------------------------------
\* State
\* ------------------------------------------------------------------------
VARIABLES
    fitted,          \* Ewa: fit has stored X and y (the attributes exist)
    X, y,            \* Ewa: the training set, rows and their targets
    hasSplit,        \* Ewa: X_k, X_l, y_k, y_l are not None
    X_k, X_l, y_k, y_l,
    machines,        \* Ewa: the registry, a dict name -> machine
    hasWeights,      \* Ewa: the attributes machine_MSE, machine_weight exist
    machine_MSE,     \* Ewa: dict name -> MSE on the aggregation split
    machine_weight,  \* Ewa: dict name -> weight
    call,            \* Ewa: the last method called, with its arguments
    outcome,         \* Ewa: "ok" or the exception the call raised
    result,          \* Ewa: what the call returned
    calls,           \* Ewa: the number of method calls made so far
    cobra,           \* the reference ensemble a Diagnostics engine reads
    diag_exists,     \* Diagnostics: the constructor has returned an engine
    diag_X_test, diag_y_test,   \* Diagnostics: the evaluation set, or None
    diag_random_state,
    diag_loaded,     \* Diagnostics: load_MSE has created the two caches
    diag_machine_test_results,  \* Diagnostics: dict name -> predictions
    diag_machine_MSE,           \* Diagnostics: dict name -> MSE
    diag_error_bound,           \* Diagnostics: None until load_MSE sets it
    diag_call,       \* Diagnostics: the last method called, with arguments
    diag_outcome,    \* Diagnostics: "ok" or the exception the call raised
    diag_result,     \* Diagnostics: what the call returned
    sweep            \* Diagnostics: the locals of the last sweep

ewaVars == <<fitted, X, y, hasSplit, X_k, X_l, y_k, y_l, machines, hasWeights,
             machine_MSE, machine_weight, call, outcome, result, calls>>

diagVars == <<cobra, diag_exists, diag_X_test, diag_y_test, diag_random_state,
              diag_loaded, diag_machine_test_results, diag_machine_MSE,
              diag_error_bound, diag_call, diag_outcome, diag_result, sweep>>

vars == <<ewaVars, diagVars>>

\* ------------------------------------------------------------------------
\* Ewa: data, machines and the library calls it makes
\* ------------------------------------------------------------------------
\* The target value of row r (any injective choice; rows are identities).
Target(r) == 2 * r + 1

\* A machine is a fitted regressor.  It is represented by its error e: it
\* predicts Target(r) + e for row r, so its MSE on any non-empty split is
\* e * e.  0 is an exact machine, 2 a mediocre one, 40 a poor one.
MachineSet == {0, 2, 40}

MachinePredict(m, rows) == [i \in 1..Len(rows) |-> Target(rows[i]) + m]

\* sklearn.metrics.mean_squared_error on two equally long non-empty vectors.
\* The machines above make the division exact.
mean_squared_error(y_true, y_pred) ==
    SumSeq([i \in 1..Len(y_true) |->
               (y_true[i] - y_pred[i]) * (y_true[i] - y_pred[i])])
        \div Len(y_true)

\* The names load_default knows, and the machine each one's fit returns.
DefaultNames == {"lasso", "tree", "ridge", "random_forest"}

DefaultMachineList == <<"lasso", "tree", "ridge", "random_forest">>

DefaultFit(name) == IF name \in {"tree", "random_forest"} THEN 0 ELSE 2

\* numpy.exp in IEEE double precision, as a fixed-point number of millionths:
\* ExpTable[x + 1] = round(10^6 * e^-x).  Beyond the table e^-x is still
\* positive (one millionth stands for it) until the double underflows:
\* e^-x is exactly 0.0 for every x above 745.
ExpTable == <<1000000, 367879, 135335, 49787, 18316, 6738, 2479, 912, 335,
              123, 45, 17, 6, 2>>

ExpUnderflow == 745

NpExpNeg(x) ==
    IF x > ExpUnderflow THEN 0
    ELSE IF x + 1 <= Len(ExpTable) THEN ExpTable[x + 1]
    ELSE 1

\* ------------------------------------------------------------------------
\* Ewa: what each method computes
\* ------------------------------------------------------------------------
\* split_data, lines 103-110 (after the optional shuffle)
SplitOf(Xs, ys, k, l) ==
    LET dflt == k = None /\ l = None
        kk   == IF dflt THEN Some(Len(Xs) \div 2) ELSE k
        ll   == IF dflt THEN Some(Len(Xs)) ELSE l
    IN  [X_k |-> PySlice(Xs, None, kk), X_l |-> PySlice(Xs, kk, ll),
         y_k |-> PySlice(ys, None, kk), y_l |-> PySlice(ys, kk, ll)]

\* What fitting a default regressor on (X_k, y_k) raises: the attributes are
\* missing before fit, None before a split, and sklearn rejects an empty
\* training set.
TrainError(fit, split, Xk) ==
    IF ~fit THEN "AttributeError"
    ELSE IF ~split \/ Xk = <<>> THEN "ValueError"
    ELSE "ok"

\* load_default: names in list order; an unknown name matches no branch.
RECURSIVE LoadDefaultOf(_, _, _)
LoadDefaultOf(ms, list, err) ==
    IF list = <<>> THEN [outcome |-> "ok", machines |-> ms]
    ELSE IF Head(list) \in DefaultNames
    THEN IF err # "ok" THEN [outcome |-> err, machines |-> ms]
         ELSE LoadDefaultOf(DictSet(ms, Head(list), DefaultFit(Head(list))),
                            Tail(list), err)
    ELSE LoadDefaultOf(ms, Tail(list), err)

\* The unnormalised weights, lines 173-175: name -> exp(-len(y_l) * MSE / beta).
\* The betas and machines of the model make the division exact.
MSEOf(ms, Xl, yl) ==
    [i \in 1..Len(ms) |->
        <<ms[i][1], mean_squared_error(yl, MachinePredict(ms[i][2], Xl))>>]

UnnormalisedOf(mse, n, beta) ==
    [i \in 1..Len(mse) |-> <<mse[i][1], NpExpNeg((n * mse[i][2]) \div beta)>>]

\* line 177
NormaliseOf(w) == SumSeq([i \in 1..Len(w) |-> w[i][2]])

\* line 178
NormalisedOf(w, normalise) ==
    [i \in 1..Len(w) |-> <<w[i][1], Quot(w[i][2], normalise)>>]

\* load_machine_weights.  The two dicts are reset first; the loop body raises
\* at the first machine when y_l is missing, None or empty (the attribute
\* read, then sklearn's input validation); with no machine the loop and the
\* comprehension of line 178 run zero times and nothing is divided.
WeightsOf(ms, fit, split, Xl, yl, beta) ==
    IF ms = <<>> THEN [outcome |-> "ok", MSE |-> <<>>, weight |-> <<>>]
    ELSE IF ~fit THEN [outcome |-> "AttributeError", MSE |-> <<>>, weight |-> <<>>]
    ELSE IF ~split \/ yl = <<>>
    THEN [outcome |-> "ValueError", MSE |-> <<>>, weight |-> <<>>]
    ELSE LET mse == MSEOf(ms, Xl, yl)
             w   == UnnormalisedOf(mse, Len(yl), beta)
         IN  [outcome |-> "ok", MSE |-> mse,
              weight |-> NormalisedOf(w, NormaliseOf(w))]

\* What a call hands back: self, None, a number, or nothing when it raised.
Self == [kind |-> "self"]

NoneValue == [kind |-> "None"]

Raised == [kind |-> "raised"]

\* weight * machine.predict(X): a vector of quotients over one denominator
Weighted(w, p) ==
    [kind |-> "array", num |-> [i \in 1..Len(p) |-> w.num * p[i]], den |-> w.den]

\* a slip in predict: result = term in place of result += term
AccumulateAssign(acc, t) == t

\* result += term; result starts as the float 0.0
Zero == [kind |-> "float", num |-> <<0>>, den |-> 1]

Accumulate(acc, t) ==
    IF acc.kind = "float" THEN t
    ELSE IF acc.den = t.den
    THEN [acc EXCEPT !.num = [i \in 1..Len(acc.num) |-> acc.num[i] + t.num[i]]]
    ELSE [acc EXCEPT !.num = [i \in 1..Len(acc.num) |->
                                  acc.num[i] * t.den + t.num[i] * acc.den],
                     !.den = acc.den * t.den]

\* predict, lines 191-195: the loop over the registry
RECURSIVE PredictLoop(_, _, _, _, _)
PredictLoop(ms, hasW, w, rows, acc) ==
    IF ms = <<>> THEN [outcome |-> "ok", value |-> acc]
    ELSE IF ~hasW THEN [outcome |-> "AttributeError", value |-> Raised]
    ELSE IF ~DictHas(w, Head(ms)[1]) THEN [outcome |-> "KeyError", value |-> Raised]
    ELSE PredictLoop(Tail(ms), hasW, w, rows,
                     Accumulate(acc, Weighted(DictGet(w, Head(ms)[1]),
                                              MachinePredict(Head(ms)[2], rows))))

\* ------------------------------------------------------------------------
\* Ewa: inputs of the model
\* ------------------------------------------------------------------------
BetaSet == {1, 2}

\* k and l of split_data: omitted, negative, or a row count
SplitArgs == {None} \cup {Some(i) : i \in -1..MaxRows}

\* k and l as the documented use gives them: omitted, or a row count
PlainSplitArgs == {<<None, None>>, <<Some(1), None>>, <<Some(1), Some(2)>>}

MachineLists == {DefaultMachineList, <<"tree">>, <<"svm", "ridge">>, <<"svm">>}

MachineNames == {"tree", "custom"}

\* query matrices: rows by identity; the empty one is rejected by check_array
Queries == {<<>>, <<1>>, <<2, 1>>}

\* ------------------------------------------------------------------------
\* Ewa: the methods
\* ------------------------------------------------------------------------
\* Ewa(), lines 35-36
EwaInit ==
    /\ fitted = FALSE /\ X = <<>> /\ y = <<>>
    /\ hasSplit = FALSE /\ X_k = <<>> /\ X_l = <<>> /\ y_k = <<>> /\ y_l = <<>>
    /\ machines = <<>>
    /\ hasWeights = FALSE /\ machine_MSE = <<>> /\ machine_weight = <<>>
    /\ call = [op |-> "__init__"] /\ outcome = "ok" /\ result = Self
    /\ calls = 0

\* Every method call counts as one; no Ewa method touches a Diagnostics
\* engine or its ensemble.
Called == calls < MaxCalls /\ calls' = calls + 1 /\ UNCHANGED diagVars

\* fit(X, y, default, beta) on n rows, X_k, X_l, y_k, y_l not given.
\* check_X_y rejects an empty training set before anything is stored.
Fit(n, default, beta) ==
    /\ Called
    /\ call' = [op |-> "fit", n |-> n, default |-> default, beta |-> beta]
    /\ IF n = 0
       THEN /\ outcome' = "ValueError" /\ result' = Raised
            /\ UNCHANGED <<fitted, X, y, hasSplit, X_k, X_l, y_k, y_l, machines,
                           hasWeights, machine_MSE, machine_weight>>
       ELSE LET Xs == [i \in 1..n |-> i]
                ys == [i \in 1..n |-> Target(i)]
                sp == SplitOf(Xs, ys, None, None)
                ld == LoadDefaultOf(machines, DefaultMachineList,
                                    TrainError(TRUE, TRUE, sp.X_k))
                wt == WeightsOf(ld.machines, TRUE, TRUE, sp.X_l, sp.y_l, beta)
            IN  /\ fitted' = TRUE /\ X' = Xs /\ y' = ys
                /\ IF ~default
                   THEN /\ hasSplit' = FALSE
                        /\ X_k' = <<>> /\ X_l' = <<>> /\ y_k' = <<>> /\ y_l' = <<>>
                        /\ outcome' = "ok" /\ result' = Self
                        /\ UNCHANGED <<machines, hasWeights, machine_MSE,
                                       machine_weight>>
                   ELSE /\ hasSplit' = TRUE
                        /\ X_k' = sp.X_k /\ X_l' = sp.X_l
                        /\ y_k' = sp.y_k /\ y_l' = sp.y_l
                        /\ machines' = ld.machines
                        /\ IF ld.outcome # "ok"
                           THEN /\ outcome' = ld.outcome /\ result' = Raised
                                /\ UNCHANGED <<hasWeights, machine_MSE,
                                               machine_weight>>
                           ELSE /\ hasWeights' = TRUE
                                /\ machine_MSE' = wt.MSE
                                /\ machine_weight' = wt.weight
                                /\ outcome' = wt.outcome
                                /\ result' = IF wt.outcome = "ok" THEN Self
                                             ELSE Raised

\* split_data(k, l, shuffle_data); p is the permutation shuffle draws
SplitData(k, l, shuffle_data, p) ==
    /\ Called
    /\ call' = [op |-> "split_data", k |-> k, l |-> l,
                shuffle_data |-> shuffle_data]
    /\ UNCHANGED <<fitted, machines, hasWeights, machine_MSE, machine_weight>>
    /\ IF ~fitted
       THEN /\ outcome' = "AttributeError" /\ result' = Raised
            /\ UNCHANGED <<X, y, hasSplit, X_k, X_l, y_k, y_l>>
       ELSE LET Xs == IF shuffle_data THEN [i \in 1..Len(X) |-> X[p[i]]] ELSE X
                ys == IF shuffle_data THEN [i \in 1..Len(y) |-> y[p[i]]] ELSE y
                sp == SplitOf(Xs, ys, k, l)
            IN  /\ X' = Xs /\ y' = ys
                /\ hasSplit' = TRUE
                /\ X_k' = sp.X_k /\ X_l' = sp.X_l
                /\ y_k' = sp.y_k /\ y_l' = sp.y_l
                /\ outcome' = "ok" /\ result' = NoneValue

\* load_default(machine_list)
LoadDefault(machine_list) ==
    LET ld == LoadDefaultOf(machines, machine_list,
                            TrainError(fitted, hasSplit, X_k))
    IN  /\ Called
        /\ call' = [op |-> "load_default", machine_list |-> machine_list]
        /\ machines' = ld.machines
        /\ outcome' = ld.outcome
        /\ result' = IF ld.outcome = "ok" THEN NoneValue ELSE Raised
        /\ UNCHANGED <<fitted, X, y, hasSplit, X_k, X_l, y_k, y_l, hasWeights,
                       machine_MSE, machine_weight>>

\* load_machine(machine_name, machine)
LoadMachine(machine_name, machine) ==
    /\ Called
    /\ call' = [op |-> "load_machine", machine_name |-> machine_name,
                machine |-> machine]
    /\ machines' = DictSet(machines, machine_name, machine)
    /\ outcome' = "ok" /\ result' = Self
    /\ UNCHANGED <<fitted, X, y, hasSplit, X_k, X_l, y_k, y_l, hasWeights,
                   machine_MSE, machine_weight>>

\* load_machine_weights(beta)
LoadMachineWeights(beta) ==
    LET wt == WeightsOf(machines, fitted, hasSplit, X_l, y_l, beta)
    IN  /\ Called
        /\ call' = [op |-> "load_machine_weights", beta |-> beta]
        /\ hasWeights' = TRUE
        /\ machine_MSE' = wt.MSE
        /\ machine_weight' = wt.weight
        /\ outcome' = wt.outcome
        /\ result' = IF wt.outcome = "ok" THEN Self ELSE Raised
        /\ UNCHANGED <<fitted, X, y, hasSplit, X_k, X_l, y_k, y_l, machines>>

\* predict(X) on the query rows
Predict(rows) ==
    LET pr == IF rows = <<>> THEN [outcome |-> "ValueError", value |-> Raised]
              ELSE PredictLoop(machines, hasWeights, machine_weight, rows, Zero)
    IN  /\ Called
        /\ call' = [op |-> "predict", X |-> rows]
        /\ outcome' = pr.outcome
        /\ result' = pr.value
        /\ UNCHANGED <<fitted, X, y, hasSplit, X_k, X_l, y_k, y_l, machines,
                       hasWeights, machine_MSE, machine_weight>>

\* ------------------------------------------------------------------------
\* Diagnostics: the reference ensemble and the collaborator's answers
\* ------------------------------------------------------------------------
CobraNames == <<"lasso", "tree", "ridge", "random_forest", "svm", "knn">>

PoolValues == {1, 2}

\* A fitted reference ensemble: n uniquely named machines, an aggregation
\* split of X_l rows, and all_predictions, the pool of every machine's
\* prediction on every row of X_l.
Ensembles ==
    {[machines |-> SubSeq(CobraNames, 1, n), X_l |-> [i \in 1..nl |-> i],
      all_predictions |-> p, random_state |-> Some(0)] :
        n \in {0}, nl \in 1..MaxPool, p \in {<<>>}}
    \cup UNION {UNION {
            {[machines |-> SubSeq(CobraNames, 1, n), X_l |-> [i \in 1..nl |-> i],
              all_predictions |-> p, random_state |-> Some(0)] :
                p \in [1..(n * nl) -> PoolValues]} :
            nl \in {m \in 1..MaxPool : n * m <= MaxPool}} :
        n \in 1..MaxMachines}

\* The error a fresh combiner scores at the i-th grid point of a sweep
\* (mean_squared_error, or np.square for a single query point): the pattern
\* repeats, so that minima tie and fall anywhere in the sweep.
ScorePatterns == {<<0>>, <<1, 0>>, <<2, 1, 0>>}

Score(pattern, i) == pattern[((i - 1) % Len(pattern)) + 1]

\* The collaborator's predict rejects a missing query.
CobraPredictRaises(Xq) == Xq = None

\* ------------------------------------------------------------------------
\* Diagnostics: what the sweeps compute
\* ------------------------------------------------------------------------
RECURSIVE Concat(_)
Concat(ss) == IF ss = <<>> THEN <<>> ELSE Head(ss) \o Concat(Tail(ss))

\* sorted(): insertion into a sorted prefix
RECURSIVE Insert(_, _)
Insert(v, s) ==
    IF s = <<>> THEN <<v>>
    ELSE IF v < Head(s) THEN <<v>> \o s
    ELSE <<Head(s)>> \o Insert(v, Tail(s))

RECURSIVE Sorted(_)
Sorted(s) == IF s = <<>> THEN <<>> ELSE Insert(Head(s), Sorted(Tail(s)))

\* min() and max() of a non-empty sequence
RECURSIVE MinOf(_)
MinOf(s) ==
    IF Len(s) = 1 THEN s[1]
    ELSE LET m == MinOf(Tail(s)) IN IF Head(s) <= m THEN Head(s) ELSE m

RECURSIVE MaxOf(_)
MaxOf(s) ==
    IF Len(s) = 1 THEN s[1]
    ELSE LET m == MaxOf(Tail(s)) IN IF Head(s) >= m THEN Head(s) ELSE m

\* res of lines 212, 322, 373: the gaps between neighbours of the sorted pool
Gaps(a) == [i \in 1..(Len(a) - 1) |-> a[i + 1] - a[i]]

\* emin of lines 213, 323, 374
EminOf(res) == MinOf(res)

\* Lines 211-214: min() of an empty res raises ValueError.
EpsilonRange(pool) ==
    LET a   == Sorted(pool)
        res == Gaps(a)
    IN  IF res = <<>> THEN [outcome |-> "ValueError", emin |-> None, emax |-> None]
        ELSE [outcome |-> "ok", emin |-> Some(EminOf(res)),
              emax |-> Some(MaxOf(a) - MinOf(a))]

\* np.linspace(emin, emax, n): n evenly spaced floats, as quotients over n - 1
Linspace(emin, emax, n) ==
    IF n = 0 THEN <<>>
    ELSE IF n = 1 THEN <<Quot(emin, 1)>>
    ELSE [i \in 1..n |-> Quot(emin * (n - 1) + (i - 1) * (emax - emin), n - 1)]

\* range(1, len(machines) + 1) and np.arange(1, len(machines) + 1)
Counts(n) == [i \in 1..n |-> i]

\* a slip in the enumeration: the combinations that leave the last name out
RECURSIVE CombinationsShort(_, _)
CombinationsShort(names, r) ==
    IF r = 0 THEN << <<>> >>
    ELSE IF Len(names) <= r THEN <<>>
    ELSE LET with == CombinationsShort(Tail(names), r - 1)
         IN  [i \in 1..Len(with) |-> <<Head(names)>> \o with[i]]
             \o CombinationsShort(Tail(names), r)

\* list(itertools.combinations(names, r)): the r-subsequences of names in
\* lexicographic order of positions
RECURSIVE Combinations(_, _)
Combinations(names, r) ==
    IF r = 0 THEN << <<>> >>
    ELSE IF Len(names) < r THEN <<>>
    ELSE LET with == Combinations(Tail(names), r - 1)
         IN  [i \in 1..Len(with) |-> <<Head(names)>> \o with[i]]
             \o Combinations(Tail(names), r)

\* lines 162-165: every cardinality, every combination
AllCombinations(names) ==
    Concat([num \in 1..Len(names) |-> Combinations(names, Counts(Len(names))[num])])

\* The loop body's MSE[key] = score, over the grid points in order: a key the
\* map already holds keeps its place and takes the new score, a new key goes
\* to the end.
RECURSIVE FillMSE(_, _, _, _)
FillMSE(keys, pattern, i, d) ==
    IF i > Len(keys) THEN d
    ELSE IF DictHas(d, keys[i])
    THEN FillMSE(keys, pattern, i + 1, DictSet(d, keys[i], Score(pattern, i)))
    ELSE FillMSE(keys, pattern, i + 1, Append(d, <<keys[i], Score(pattern, i)>>))

\* a slip in the minimisation: a later key as good as the best replaces it
SmallerOrEqual(v, best) == v <= best

\* min(MSE, key=MSE.get): the keys in dict order; a later key replaces the
\* best one only when its value is smaller.
Smaller(v, best) == v < best

RECURSIVE MinFrom(_, _, _)
MinFrom(d, i, best) ==
    IF i > Len(d) THEN d[best][1]
    ELSE MinFrom(d, i + 1, IF Smaller(d[i][2], d[best][2]) THEN i ELSE best)

PyMinKey(d) == MinFrom(d, 2, 1)

\* The tail of every sweep: the map, or its minimiser; min() of an empty map
\* raises ValueError.
SweepReturn(MSE, info) ==
    IF info THEN [outcome |-> "ok", value |-> [kind |-> "map", map |-> MSE]]
    ELSE IF MSE = <<>> THEN [outcome |-> "ValueError", value |-> Raised]
    ELSE LET opt == PyMinKey(MSE)
         IN  [outcome |-> "ok",
              value |-> [kind |-> "pair", key |-> opt, value |-> DictGet(MSE, opt)]]

\* the locals of a sweep that has not run
NoSweep == [evaluated |-> <<>>, MSE |-> <<>>, constructed |-> 0,
            emin |-> None, emax |-> None]

\* The keys of a sweep's map, each a record of the parameters it fixes: the
\* scalar keys of lines 120, 176, 222 and the tuples of lines 277, 335, 391.
AlphaKeys(nums) == [i \in 1..Len(nums) |-> [alpha |-> nums[i]]]

MachinesKeys(use) == [i \in 1..Len(use) |-> [machines |-> use[i]]]

EpsilonKeys(erange) == [i \in 1..Len(erange) |-> [epsilon |-> erange[i]]]

SplitKeys(split) == [i \in 1..Len(split) |-> [split |-> split[i]]]

AlphaGridKeys(erange, nums) ==
    Concat([e \in 1..Len(erange) |->
              [j \in 1..Len(nums) |-> [alpha |-> nums[j], epsilon |-> erange[e]]]])

MachinesGridKeys(erange, use) ==
    Concat([e \in 1..Len(erange) |->
              [j \in 1..Len(use) |-> [machines |-> use[j], epsilon |-> erange[e]]]])

\* A sweep over the grid points keys: one fresh combiner per grid point.
SweepOver(keys, pattern, info, range) ==
    LET MSE == FillMSE(keys, pattern, 1, <<>>)
        ret == SweepReturn(MSE, info)
    IN  /\ sweep' = [evaluated |-> keys, MSE |-> MSE, constructed |-> Len(keys),
                     emin |-> range.emin, emax |-> range.emax]
        /\ diag_outcome' = ret.outcome
        /\ diag_result' = ret.value

\* A sweep that raised while deriving its epsilon range
SweepRaised(range) ==
    /\ sweep' = [NoSweep EXCEPT !.emin = range.emin, !.emax = range.emax]
    /\ diag_outcome' = range.outcome
    /\ diag_result' = Raised

NoRange == [outcome |-> "ok", emin |-> None, emax |-> None]

\* the default of optimal_split's split, in tenths
DefaultSplit == <<<<2, 8>>, <<4, 6>>, <<5, 5>>, <<6, 4>>, <<8, 2>>>>

SplitLists == {None, Some(<<<<5, 5>>, <<2, 8>>, <<5, 5>>>>), Some(<<>>)}

DiagUnchangedBySweep ==
    UNCHANGED <<ewaVars, cobra, diag_exists, diag_X_test, diag_y_test, diag_random_state,
                diag_loaded, diag_machine_test_results, diag_machine_MSE,
                diag_error_bound>>

\* ------------------------------------------------------------------------
\* Diagnostics: the methods
\* ------------------------------------------------------------------------
\* optimal_alpha(X, y, single, epsilon, info)
OptimalAlpha(pattern, info) ==
    /\ diag_exists
    /\ diag_call' = [op |-> "optimal_alpha", info |-> info]
    /\ SweepOver(AlphaKeys(Counts(Len(cobra.machines))), pattern, info, NoRange)
    /\ DiagUnchangedBySweep

\* optimal_machines(X, y, single, epsilon, info)
OptimalMachines(pattern, info) ==
    /\ diag_exists
    /\ diag_call' = [op |-> "optimal_machines", info |-> info]
    /\ SweepOver(MachinesKeys(AllCombinations(cobra.machines)), pattern, info,
                 NoRange)
    /\ DiagUnchangedBySweep

\* optimal_epsilon(X, y, line_points, info)
OptimalEpsilon(line_points, pattern, info) ==
    LET range == EpsilonRange(cobra.all_predictions)
    IN  /\ diag_exists
        /\ diag_call' = [op |-> "optimal_epsilon", info |-> info,
                         line_points |-> line_points]
        /\ IF range.outcome # "ok" THEN SweepRaised(range)
           ELSE SweepOver(EpsilonKeys(Linspace(range.emin[1], range.emax[1],
                                               line_points)),
                          pattern, info, range)
        /\ DiagUnchangedBySweep

\* optimal_split(X, y, split, epsilon, info)
OptimalSplit(split, pattern, info) ==
    /\ diag_exists
    /\ diag_call' = [op |-> "optimal_split", info |-> info, split |-> split]
    /\ SweepOver(SplitKeys(IF split = None THEN DefaultSplit ELSE split[1]),
                 pattern, info, NoRange)
    /\ DiagUnchangedBySweep

\* optimal_alpha_grid(X, y, line_points, info): epsilon outside, alpha inside
OptimalAlphaGrid(line_points, pattern, info) ==
    LET range  == EpsilonRange(cobra.all_predictions)
        erange == Linspace(range.emin[1], range.emax[1], line_points)
        nums   == Counts(Len(cobra.machines))
        keys   == AlphaGridKeys(erange, nums)
    IN  /\ diag_exists
        /\ diag_call' = [op |-> "optimal_alpha_grid", info |-> info,
                         line_points |-> line_points]
        /\ IF range.outcome # "ok" THEN SweepRaised(range)
           ELSE SweepOver(keys, pattern, info, range)
        /\ DiagUnchangedBySweep

\* optimal_machines_grid(X, y, line_points, info): epsilon outside,
\* combinations inside
OptimalMachinesGrid(line_points, pattern, info) ==
    LET range  == EpsilonRange(cobra.all_predictions)
        erange == Linspace(range.emin[1], range.emax[1], line_points)
        use    == AllCombinations(cobra.machines)
        keys   == MachinesGridKeys(erange, use)
    IN  /\ diag_exists
        /\ diag_call' = [op |-> "optimal_machines_grid", info |-> info,
                         line_points |-> line_points]
        /\ IF range.outcome # "ok" THEN SweepRaised(range)
           ELSE SweepOver(keys, pattern, info, range)
        /\ DiagUnchangedBySweep

\* load_MSE, lines 59-73.  The caches are reset first; the ensemble's predict
\* raises on a missing X_test and mean_squared_error on a missing y_test.
LoadMSEOf(c, X_test, y_test, pattern, bound) ==
    LET names == <<"COBRA">> \o c.machines
    IN  IF CobraPredictRaises(X_test)
        THEN [outcome |-> "ValueError", results |-> <<>>, MSE |-> <<>>,
              bound |-> bound]
        ELSE IF y_test = None
        THEN [outcome |-> "ValueError", results |-> <<<<"COBRA", "predictions">>>>,
              MSE |-> <<>>, bound |-> bound]
        ELSE [outcome |-> "ok",
              results |-> [i \in 1..Len(names) |-> <<names[i], "predictions">>],
              MSE |-> [i \in 1..Len(names) |-> <<names[i], Score(pattern, i)>>],
              bound |-> Some([base |-> Len(c.X_l),
                              power |-> Quot(-2, Len(c.machines) + 2)])]

\* a slip in the constructor: the load flag alone decides
ShouldLoadOnFlag(load_MSE, X_test) == load_MSE

\* line 42
ShouldLoad(load_MSE, X_test) == load_MSE /\ X_test # None

\* no engine: before construction, or when the constructor raised
NoEngine ==
    /\ diag_exists' = FALSE
    /\ diag_X_test' = None /\ diag_y_test' = None /\ diag_random_state' = None
    /\ diag_loaded' = FALSE
    /\ diag_machine_test_results' = <<>> /\ diag_machine_MSE' = <<>>
    /\ diag_error_bound' = None

\* Diagnostics(cobra, X_test, y_test, load_MSE, random_state)
Construct(X_test, y_test, load_MSE, random_state, pattern) ==
    LET ld == LoadMSEOf(cobra, X_test, y_test, pattern, None)
    IN  /\ diag_call' = [op |-> "__init__", X_test |-> X_test, y_test |-> y_test,
                         load_MSE |-> load_MSE]
        /\ sweep' = NoSweep
        /\ UNCHANGED <<ewaVars, cobra>>
        /\ IF ShouldLoad(load_MSE, X_test) /\ ld.outcome # "ok"
           THEN /\ NoEngine
                /\ diag_outcome' = ld.outcome /\ diag_result' = Raised
           ELSE /\ diag_exists' = TRUE
                /\ diag_X_test' = X_test /\ diag_y_test' = y_test
                /\ diag_random_state' = IF random_state = None
                                        THEN cobra.random_state ELSE random_state
                /\ diag_loaded' = ShouldLoad(load_MSE, X_test)
                /\ diag_machine_test_results' =
                       IF ShouldLoad(load_MSE, X_test) THEN ld.results ELSE <<>>
                /\ diag_machine_MSE' =
                       IF ShouldLoad(load_MSE, X_test) THEN ld.MSE ELSE <<>>
                /\ diag_error_bound' =
                       IF ShouldLoad(load_MSE, X_test) THEN ld.bound ELSE None
                /\ diag_outcome' = "ok" /\ diag_result' = Self

\* load_MSE() called on the engine
LoadMSE(pattern) ==
    LET ld == LoadMSEOf(cobra, diag_X_test, diag_y_test, pattern, diag_error_bound)
    IN  /\ diag_exists
        /\ diag_call' = [op |-> "load_MSE"]
        /\ diag_loaded' = TRUE
        /\ diag_machine_test_results' = ld.results
        /\ diag_machine_MSE' = ld.MSE
        /\ diag_error_bound' = ld.bound
        /\ diag_outcome' = ld.outcome
        /\ diag_result' = IF ld.outcome = "ok" THEN Self ELSE Raised
        /\ sweep' = NoSweep
        /\ UNCHANGED <<ewaVars, cobra, diag_exists, diag_X_test, diag_y_test,
                       diag_random_state>>

\* No engine yet, on the ensemble c.
DiagAbsent(c) ==
    /\ cobra = c
    /\ diag_exists = FALSE
    /\ diag_X_test = None /\ diag_y_test = None /\ diag_random_state = None
    /\ diag_loaded = FALSE
    /\ diag_machine_test_results = <<>> /\ diag_machine_MSE = <<>>
    /\ diag_error_bound = None
    /\ diag_call = [op |-> "none"] /\ diag_outcome = "ok" /\ diag_result = NoneValue
    /\ sweep = NoSweep

\* The engine Diagnostics(c) with every argument at its default.
DiagDefault(c) ==
    /\ cobra = c
    /\ diag_exists = TRUE
    /\ diag_X_test = None /\ diag_y_test = None
    /\ diag_random_state = c.random_state
    /\ diag_loaded = FALSE
    /\ diag_machine_test_results = <<>> /\ diag_machine_MSE = <<>>
    /\ diag_error_bound = None
    /\ diag_call = [op |-> "__init__", X_test |-> None, y_test |-> None,
                    load_MSE |-> TRUE]
    /\ diag_outcome = "ok" /\ diag_result = Self
    /\ sweep = NoSweep

TestSets == {None, Some("test")}

FirstEnsemble == CHOOSE c \in Ensembles : c.machines = <<>> /\ Len(c.X_l) = 1

\* ------------------------------------------------------------------------
\* Specifications
\* ------------------------------------------------------------------------
Init == EwaInit /\ DiagAbsent(FirstEnsemble)

\* An Ewa driven through all its methods, split_data in its documented use.
EwaNext ==
    \/ \E n \in 0..MaxRows, default \in BOOLEAN, beta \in BetaSet :
          Fit(n, default, beta)
    \/ \E a \in PlainSplitArgs : SplitData(a[1], a[2], FALSE, <<>>)
    \/ \E machine_list \in MachineLists : LoadDefault(machine_list)
    \/ \E machine_name \in MachineNames, machine \in MachineSet :
          LoadMachine(machine_name, machine)
    \/ \E beta \in BetaSet : LoadMachineWeights(beta)
    \/ \E rows \in Queries : Predict(rows)

SpecEwa == Init /\ [][EwaNext]_vars

\* An Ewa fitted and split with every kind of k and l, shuffled or not.
SplitNext ==
    \/ \E n \in 0..MaxRows, default \in BOOLEAN, beta \in BetaSet :
          Fit(n, default, beta)
    \/ \E k \in SplitArgs, l \in SplitArgs : SplitData(k, l, FALSE, <<>>)
    \/ \E k \in SplitArgs, l \in SplitArgs, p \in Shuffles(Len(X)) :
          SplitData(k, l, TRUE, p)

SpecSplit == Init /\ [][SplitNext]_vars

\* A Diagnostics engine with default arguments on any reference ensemble,
\* asked for its sweeps.
SweepInit == EwaInit /\ \E c \in Ensembles : DiagDefault(c)

SweepNext ==
    \E pattern \in ScorePatterns, info \in BOOLEAN :
        \/ OptimalAlpha(pattern, info)
        \/ OptimalMachines(pattern, info)
        \/ \E line_points \in 0..MaxLinePoints :
              OptimalEpsilon(line_points, pattern, info)
        \/ \E split \in SplitLists : OptimalSplit(split, pattern, info)
        \/ \E line_points \in 0..MaxLinePoints :
              OptimalAlphaGrid(line_points, pattern, info)
        \/ \E line_points \in 0..MaxLinePoints :
              OptimalMachinesGrid(line_points, pattern, info)

SpecSweep == SweepInit /\ [][SweepNext]_vars

\* Diagnostics engines constructed on any reference ensemble, with and
\* without an evaluation set, and their load_MSE.
DiagInit == EwaInit /\ \E c \in Ensembles : DiagAbsent(c)

DiagNext ==
    \/ \E X_test \in TestSets, y_test \in TestSets, load_MSE \in BOOLEAN,
          random_state \in {None, Some(1)}, pattern \in ScorePatterns :
            Construct(X_test, y_test, load_MSE, random_state, pattern)
    \/ \E pattern \in ScorePatterns : LoadMSE(pattern)

SpecDiag == DiagInit /\ [][DiagNext]_vars

\* ------------------------------------------------------------------------
\* Properties
\* ------------------------------------------------------------------------
SweepOps == {"optimal_alpha", "optimal_machines", "optimal_epsilon",
             "optimal_split", "optimal_alpha_grid", "optimal_machines_grid"}

EpsilonOps == {"optimal_epsilon", "optimal_alpha_grid", "optimal_machines_grid"}

\* C1: a sweep called with info=False returns a (key, value) entry of the map
\* the same sweep returns with info=True, its value is the least value of that
\* map, and no key before it in the map's insertion order has that value.
C1_MinimizerIsFirstMinimum ==
    (diag_call.op \in SweepOps /\ diag_outcome = "ok") =>
        IF diag_call.info
        THEN diag_result.kind = "map" /\ diag_result.map = sweep.MSE
        ELSE /\ diag_result.kind = "pair"
             /\ \E i \in 1..Len(sweep.MSE) :
                  /\ sweep.MSE[i] = <<diag_result.key, diag_result.value>>
                  /\ \A j \in 1..Len(sweep.MSE) :
                        /\ diag_result.value <= sweep.MSE[j][2]
                        /\ j < i => diag_result.value < sweep.MSE[j][2]

\* C1 witness: a joint sweep over subsets and epsilon returned a minimiser
\* that is not the first grid point and that a later grid point ties with.
C1_Witness ==
    /\ diag_call.op = "optimal_machines_grid" /\ diag_outcome = "ok"
    /\ ~diag_call.info
    /\ sweep.MSE[1][2] > diag_result.value
    /\ \E i, j \in 1..Len(sweep.MSE) :
          /\ i < j
          /\ sweep.MSE[i][2] = diag_result.value
          /\ sweep.MSE[j][2] = diag_result.value

Pow2(n) == IF n = 0 THEN 1 ELSE LET F[i \in 0..n] == IF i = 0 THEN 1 ELSE 2 * F[i - 1]
                                 IN  F[n]

\* C2: on n uniquely named machines optimal_machines evaluates every non-empty
\* set of machine names exactly once, 2^n - 1 combinations in all, constructs
\* one combiner per combination, and its map has 2^n - 1 entries.
C2_SubsetEnumerationComplete ==
    diag_call.op = "optimal_machines" =>
        LET n     == Len(cobra.machines)
            names == Range(cobra.machines)
            ev    == [i \in 1..Len(sweep.evaluated) |-> sweep.evaluated[i].machines]
        IN  /\ Len(ev) = Pow2(n) - 1
            /\ {Range(ev[i]) : i \in 1..Len(ev)} = (SUBSET names) \ {{}}
            /\ \A i \in 1..Len(ev) : Len(ev[i]) = Cardinality(Range(ev[i]))
            /\ \A i, j \in 1..Len(ev) : Range(ev[i]) = Range(ev[j]) => i = j
            /\ sweep.constructed = Pow2(n) - 1
            /\ Len(sweep.MSE) = Pow2(n) - 1
            /\ (diag_call.info /\ diag_outcome = "ok") =>
                   Len(diag_result.map) = Pow2(n) - 1

\* C2 witness: the subset sweep ran on three or more machines and returned
\* its map.
C2_Witness ==
    /\ diag_call.op = "optimal_machines" /\ diag_call.info
    /\ diag_outcome = "ok"
    /\ Len(cobra.machines) >= 3
    /\ Len(diag_result.map) >= 7

\* the least positive difference between two values of the pool
SmallestPositiveGap(pool) ==
    LET d == {b - a : a, b \in Range(pool)} \cap (1..MaxOf(pool))
    IN  CHOOSE g \in d : \A h \in d : g <= h

\* C3: whenever an epsilon range is derived from a pool (with two or more
\* distinct values), its minimum is the smallest positive difference between
\* consecutive values of the sorted pool and its maximum is max - min.
C3_EpsilonBounds ==
    (/\ diag_call.op \in EpsilonOps
     /\ sweep.emin # None
     /\ Cardinality(Range(cobra.all_predictions)) >= 2) =>
        /\ sweep.emin[1] = SmallestPositiveGap(cobra.all_predictions)
        /\ sweep.emax[1] = MaxOf(cobra.all_predictions) - MinOf(cobra.all_predictions)

\* the sum over the names S of weight * prediction for the query row r
RECURSIVE WeightedSum(_, _)
WeightedSum(S, r) ==
    IF S = {} THEN 0
    ELSE LET name == CHOOSE name \in S : TRUE
         IN  DictGet(machine_weight, name).num * (Target(r) + DictGet(machines, name))
             + WeightedSum(S \ {name}, r)

\* C4: once load_machine_weights has weighted the machines of a non-empty
\* registry, predict returns for every query row the sum over the registered
\* machines, each taken once, of its weight times its own prediction.
C4_PredictIsWeightedSum ==
    (/\ call.op = "predict" /\ call.X # <<>>
     /\ machines # <<>>
     /\ hasWeights /\ DictKeys(machine_weight) = DictKeys(machines)) =>
        /\ outcome = "ok"
        /\ result.kind = "array"
        /\ Len(result.num) = Len(call.X)
        /\ result.den = machine_weight[1][2].den
        /\ \A i \in 1..Len(call.X) :
              result.num[i] = WeightedSum(Range(DictKeys(machines)), call.X[i])

\* C4 witness: predict returned for two query rows from a registry in which
\* two machines carry different positive weights.
C4_Witness ==
    /\ call.op = "predict" /\ outcome = "ok" /\ Len(call.X) = 2
    /\ hasWeights /\ DictKeys(machine_weight) = DictKeys(machines)
    /\ \E i, j \in 1..Len(machine_weight) :
          /\ machine_weight[i][2].num > machine_weight[j][2].num
          /\ machine_weight[j][2].num > 0
          /\ machines[i][2] # machines[j][2]

\* C5: every weight map load_machine_weights produces on a non-empty registry
\* has weights >= 0 that sum to 1.
C5_WeightsNormalised ==
    (/\ call.op = "load_machine_weights" /\ outcome = "ok"
     /\ machines # <<>>) =>
        /\ \A i \in 1..Len(machine_weight) :
              /\ ~IsNaN(machine_weight[i][2])
              /\ machine_weight[i][2].num >= 0
              /\ machine_weight[i][2].den > 0
        /\ SumSeq([i \in 1..Len(machine_weight) |-> machine_weight[i][2].num])
              = machine_weight[1][2].den

\* C6: after any split_data(k, l), X_k and X_l share no row and together hold
\* at most the rows of X.
C6_SplitDisjoint ==
    (call.op = "split_data" /\ outcome = "ok") =>
        /\ Range(X_k) \cap Range(X_l) = {}
        /\ Len(X_k) + Len(X_l) <= Len(X)

\* C7: load_machine_weights on an empty registry ends in an error.
C7_EmptyRegistryFails ==
    (call.op = "load_machine_weights" /\ machines = <<>>) => outcome # "ok"

\* C8: predict before load_machine_weights has ever been called fails,
\* whatever the registry holds.
C8_PredictBeforeWeightsFails ==
    (call.op = "predict" /\ ~hasWeights) => outcome # "ok"

\* C9: when all values of the pool are identical, every sweep that derives
\* an epsilon range fails before it constructs a combiner.
C9_DegenerateRangeFails ==
    (/\ diag_call.op \in EpsilonOps
     /\ cobra.all_predictions # <<>>
     /\ Cardinality(Range(cobra.all_predictions)) = 1) =>
        /\ diag_outcome # "ok"
        /\ sweep.constructed = 0

C11_TrainingSetUnchanged ==
    [][(fitted /\ call'.op # "fit") => (X' = X /\ y' = y)]_vars

====
